---- MODULE Spec2Model ----
(***************************************************************************)
(* A model of pymc3's MAP driver (pymc3/tuning/starting.py) and of the     *)
(* discrete distributions (pymc3/distributions/discrete.py).               *)
(*                                                                         *)
(* Floating point numbers are records [k, n, e]:                           *)
(*   k = "fin" : the finite number n * 10^e  (n = 0 is zero)               *)
(*   k = "max" : n * (largest finite float64), n in {-1, 1}                *)
(*   k = "inf" : n * infinity, n in {-1, 1}                                *)
(*   k = "nan" : not a number                                              *)
(* Arrays are records [shape, data]: data is the row-major list of the     *)
(* elements, shape the tuple of dimensions (<< >> for a scalar).           *)
(* A Point is a function from variable names to arrays.                    *)
(***************************************************************************)
EXTENDS Integers, Sequences, FiniteSets, TLC

(***************************************************************************)
(* Bounds of the model.                                                    *)
(***************************************************************************)
\* longest list of variables a caller passes as vars
MaxVars == 2
\* most evaluations of the objective an optimizer run makes in the model
MaxEvals == 2

(***************************************************************************)
(* float64 values and the numpy functions the driver uses on them.         *)
(***************************************************************************)
NaN == [k |-> "nan", n |-> 0, e |-> 0]
PosInf == [k |-> "inf", n |-> 1, e |-> 0]
NegInf == [k |-> "inf", n |-> -1, e |-> 0]
Zero == [k |-> "fin", n |-> 0, e |-> 0]

Fin(n, e) == IF n = 0 THEN Zero ELSE [k |-> "fin", n |-> n, e |-> e]

One == Fin(1, 0)
Half == Fin(5, -1)

\* the largest finite float64 (about 1.797e308), with sign s
FloatMax(s) == [k |-> "max", n |-> s, e |-> 308]

\* numpy.isfinite on one element
isfinite(f) == f.k \in {"fin", "max"}

\* unary minus of one element
Neg(f) == IF f.k = "nan" THEN f ELSE [f EXCEPT !.n = -f.n]

Sign(i) == IF i > 0 THEN 1 ELSE IF i < 0 THEN -1 ELSE 0

Abs(i) == IF i < 0 THEN -i ELSE i

\* A total order key of the non-NaN floats of the model: finite numbers are
\* ordered by sign, then exponent, then mantissa (mantissas of the model are
\* below 1000 and a mantissa with exponent -1 is below 10).
OrderKey(f) ==
    IF f.k = "inf" THEN f.n * 1000000
    ELSE IF f.k = "max" THEN f.n * 900000
    ELSE Sign(f.n) * ((f.e + 1) * 1000 + Abs(f.n))

\* a < b on floats; every comparison with NaN is false
FLess(a, b) == a.k # "nan" /\ b.k # "nan" /\ OrderKey(a) < OrderKey(b)

\* a + b on floats. Finite operands of the model either share the exponent
\* (the mantissas add) or differ by 100 decades or more, where float64
\* addition returns the larger operand unchanged.
FAdd(a, b) ==
    IF a.k = "nan" \/ b.k = "nan" THEN NaN
    ELSE IF a.k = "inf" /\ b.k = "inf" THEN (IF a.n = b.n THEN a ELSE NaN)
    ELSE IF a.k = "inf" THEN a
    ELSE IF b.k = "inf" THEN b
    ELSE IF a.k = "max" /\ b.k = "max" THEN (IF a.n = b.n THEN [a EXCEPT !.k = "inf", !.e = 0] ELSE Zero)
    ELSE IF a.k = "max" THEN a
    ELSE IF b.k = "max" THEN b
    ELSE IF a.n = 0 THEN b
    ELSE IF b.n = 0 THEN a
    ELSE IF a.e = b.e THEN Fin(a.n + b.n, a.e)
    ELSE IF a.e > b.e THEN a ELSE b

\* ndarray.astype of one element: float64 stays, an integer dtype truncates
\* towards zero (only finite elements reach the cast)
astype(f, dtype) ==
    IF dtype = "float64" \/ f.k # "fin" \/ f.e >= 0 THEN f
    ELSE Fin(Sign(f.n) * (Abs(f.n) \div 10), 0)

\* exponent of the sentinel 1.0e100 of nan_to_high
HighExp == 100

\* np.where(isfinite(x), x, 1.0e100) on one element
nan_to_high(x) == IF isfinite(x) THEN x ELSE Fin(1, HighExp)

\* numpy.nan_to_num on one element: NaN becomes zero, an infinity becomes the
\* largest finite float of its sign
nan_to_num_elem(x) ==
    IF x.k = "nan" THEN Zero
    ELSE IF x.k = "inf" THEN FloatMax(x.n)
    ELSE x

\* numpy functions lifted to flat vectors
nan_to_num(v) == [i \in 1..Len(v) |-> nan_to_num_elem(v[i])]

NegVec(v) == [i \in 1..Len(v) |-> Neg(v[i])]

AddVec(a, b) == [i \in 1..Len(a) |-> FAdd(a[i], b[i])]

\* allfinite(x): np.all(isfinite(x)) on a flat vector
allfinite(v) == \A i \in 1..Len(v) : isfinite(v[i])

(***************************************************************************)
(* The model the driver works on: two free variables, x continuous with    *)
(* two elements and d discrete and scalar; z is a variable of no model.    *)
(***************************************************************************)
ModelVars == <<"x", "d">>

ModelVarSet == {ModelVars[i] : i \in 1..Len(ModelVars)}

VarUniverse == ModelVarSet \cup {"z"}

VarDtype(v) == IF v = "d" THEN "int64" ELSE "float64"

VarShape(v) == IF v = "x" THEN <<2>> ELSE << >>

IsDiscrete(v) == VarDtype(v) \in {"int8", "int16", "int32", "int64"}

IsContinuous(v) == ~IsDiscrete(v)

\* model.cont_vars
ContVars == SelectSeq(ModelVars, IsContinuous)

RECURSIVE Prod(_)
Prod(shp) == IF shp = << >> THEN 1 ELSE Head(shp) * Prod(Tail(shp))

Full(shp, f) == [shape |-> shp, data |-> [i \in 1..Prod(shp) |-> f]]

\* model.test_point
TestPoint == [v \in ModelVarSet |-> Full(VarShape(v), Zero)]

\* the start Point a caller passes
GivenStart ==
    [v \in ModelVarSet |->
        IF v = "x" THEN [shape |-> <<2>>, data |-> <<One, Half>>]
        ELSE [shape |-> << >>, data |-> <<Fin(2, 0)>>]]

NoPoint == [v \in {} |-> Full(<< >>, Zero)]

\* values of an element of the vector an optimizer returns
ElemVals == {One, Half, NaN}

RECURSIVE Vectors(_, _)
Vectors(n, S) ==
    IF n = 0 THEN {<< >>}
    ELSE {Append(v, s) : v \in Vectors(n - 1, S), s \in S}

RECURSIVE Lists(_, _)
\* the lists of n distinct variables
Lists(n, S) ==
    IF n = 0 THEN {<< >>}
    ELSE UNION {{Append(l, s) : s \in S \ {l[i] : i \in 1..Len(l)}} : l \in Lists(n - 1, S)}

VarLists == UNION {Lists(n, VarUniverse) : n \in 1..MaxVars}

(***************************************************************************)
(* ArrayOrdering and DictToArrayBijection (pymc3/blocking.py).             *)
(* A slice <<lo, hi>> is Python's lo:hi, the elements lo+1..hi of a        *)
(* sequence counted from one.                                              *)
(***************************************************************************)
RECURSIVE VMapFrom(_, _, _)
VMapFrom(vs, point, dim) ==
    IF vs = << >> THEN << >>
    ELSE LET v == Head(vs)
             size == Prod(point[v].shape)
         IN  <<[var |-> v, slc |-> <<dim, dim + size>>, shp |-> point[v].shape]>>
                 \o VMapFrom(Tail(vs), point, dim + size)

RECURSIVE SumSizes(_, _)
SumSizes(vs, point) ==
    IF vs = << >> THEN 0 ELSE Prod(point[Head(vs)].shape) + SumSizes(Tail(vs), point)

\* ArrayOrdering(vars): one slice per variable, in the order given
ArrayOrdering(vs, point) ==
    [vmap |-> VMapFrom(vs, point, 0), dimensions |-> SumSizes(vs, point)]

\* DictToArrayBijection(ordering, dpoint)
DictToArrayBijection(ordering, dpoint) == [ordering |-> ordering, dpt |-> dpoint]

AssignSlice(apt, slc, data) ==
    [i \in 1..Len(apt) |-> IF slc[1] < i /\ i <= slc[2] THEN data[i - slc[1]] ELSE apt[i]]

TakeSlice(apt, slc) == [i \in 1..(slc[2] - slc[1]) |-> apt[slc[1] + i]]

RECURSIVE MapFold(_, _, _)
MapFold(apt, vmap, point) ==
    IF vmap = << >> THEN apt
    ELSE MapFold(AssignSlice(apt, Head(vmap).slc, point[Head(vmap).var].data),
                 Tail(vmap), point)

\* bij.map(point): the flat vector, every variable ravelled into its slice
BijMap(bij, point) ==
    MapFold([i \in 1..bij.ordering.dimensions |-> Zero], bij.ordering.vmap, point)

RECURSIVE RMapFold(_, _, _)
RMapFold(dpt, vmap, apt) ==
    IF vmap = << >> THEN dpt
    ELSE RMapFold([dpt EXCEPT ![Head(vmap).var] =
                       [shape |-> Head(vmap).shp, data |-> TakeSlice(apt, Head(vmap).slc)]],
                  Tail(vmap), apt)

\* bij.rmap(apt): a copy of the Point the bijection was built on, with every
\* variable of the ordering replaced by its slice, reshaped
BijRMap(bij, apt) == RMapFold(bij.dpt, bij.ordering.vmap, apt)

(***************************************************************************)
(* The Model: log-density and gradient.  The value of var.logp and of      *)
(* var.dlogp() at a Point is an input of the driver (lp, dl: one value per *)
(* model variable); the model's log-density is the sum of its variables'   *)
(* and so is its gradient (with respect to the continuous variables).      *)
(***************************************************************************)
RECURSIVE SumLogp(_, _)
SumLogp(vs, lp) == IF vs = << >> THEN Zero ELSE FAdd(lp[Head(vs)], SumLogp(Tail(vs), lp))

\* model.logp(point)
model_logp(lp) == SumLogp(ModelVars, lp)

GradDim == SumSizes(ContVars, TestPoint)

RECURSIVE SumDlogp(_, _)
SumDlogp(vs, dl) ==
    IF vs = << >> THEN [i \in 1..GradDim |-> Zero]
    ELSE AddVec(dl[Head(vs)], SumDlogp(Tail(vs), dl))

\* model.dlogp()(point)
model_dlogp(dl) == SumDlogp(ModelVars, dl)

\* values var.logp takes at the Point the optimizer returned
LogpAtMax == {Fin(-3, 0), NegInf}

\* values var.dlogp() takes there
DlogpAtMax == {<<Zero, One>>, <<NaN, PosInf>>}

(***************************************************************************)
(* State.                                                                  *)
(***************************************************************************)
VARIABLES
    pc,         \* where the find_MAP call is
    args,       \* the arguments of the call and model.verbose
    start,      \* start, once resolved
    varlist,    \* vars, once resolved
    fmin,       \* the optimizer, once chosen
    disp,       \* model.verbose > 1
    bij,        \* the bijection
    fminCalls,  \* how often the optimizer was invoked
    fminCall,   \* what the optimizer was invoked with
    r,          \* what the optimizer returned
    mx0,        \* the flat result vector
    mx,         \* the result Point
    atmax,      \* var.logp and var.dlogp() at the result Point
    outcome,    \* what the call returned or raised
    evals,      \* the values logp_o gave the optimizer during its run
    gevals,     \* the values grad_logp_o gave the optimizer during its run
    dcall,      \* the last call of a distribution's method and its outcome
    bb          \* the BetaBinomial._random call under way

vars == <<pc, args, start, varlist, fmin, disp, bij, fminCalls, fminCall, r, mx0, mx,
          atmax, outcome, evals, gevals, dcall, bb>>

mapvars == <<pc, args, start, varlist, fmin, disp, bij, fminCalls, fminCall, r, mx0, mx,
             atmax, outcome, evals, gevals>>

NoArgs == [start_given |-> FALSE, start |-> NoPoint, vars_given |-> FALSE, vars |-> << >>,
           fmin |-> "None", return_raw |-> FALSE, verbose |-> 0]

NoBij == DictToArrayBijection([vmap |-> << >>, dimensions |-> 0], NoPoint)

NoCall == [optimizer |-> "none", f |-> "none", x0 |-> << >>, fprime |-> "none", disp |-> FALSE]

NoR == [tuple |-> FALSE, arr |-> << >>, items |-> << >>]

NoAtMax == [logp |-> [v \in {} |-> Zero], dlogp |-> [v \in {} |-> << >>]]

NoOutcome == [kind |-> "none", point |-> NoPoint, has_raw |-> FALSE, raw |-> NoR,
              notin |-> << >>, messages |-> << >>,
              max |-> NoPoint, logp |-> Zero, dlogp |-> << >>]

NoDCall == [dist |-> "none", method |-> "none", params |-> << >>, value |-> 0,
            outcome |-> "none", result |-> "none"]

NoBB == [pc |-> "idle", n |-> 0, size |-> 0, first |-> << >>, p |-> << >>,
         retried |-> FALSE, turn |-> 0, samples |-> [shape |-> << >>, data |-> << >>]]

Init ==
    /\ pc = "idle"
    /\ args = NoArgs
    /\ start = NoPoint
    /\ varlist = << >>
    /\ fmin = "None"
    /\ disp = FALSE
    /\ bij = NoBij
    /\ fminCalls = 0
    /\ fminCall = NoCall
    /\ r = NoR
    /\ mx0 = << >>
    /\ mx = NoPoint
    /\ atmax = NoAtMax
    /\ outcome = NoOutcome
    /\ evals = << >>
    /\ gevals = << >>
    /\ dcall = NoDCall
    /\ bb = NoBB

(***************************************************************************)
(* find_MAP, lines 41-66: defaults, choice of the optimizer, validation.   *)
(***************************************************************************)
\* the optimizers of the model and what inspect and their results look like:
\* scipy's fmin_bfgs takes fprime and returns the vector, fmin_powell takes no
\* fprime and returns the vector, scipyminimize takes fprime and returns a tuple
Optimizers == {"fmin_bfgs", "fmin_powell", "scipyminimize"}

\* 'fprime' in getargspec(fmin).args
HasFprime(f) == f \in {"fmin_bfgs", "scipyminimize"}

ReturnsTuple(f) == f = "scipyminimize"

\* inputvars(vars): the variables themselves, for a list of free variables
inputvars(vs) == vs

\* typefilter(vars, discrete_types)
typefilter_discrete(vs) == SelectSeq(vs, IsDiscrete)

InModel(v) == v \in ModelVarSet

NotInModel(v) == ~InModel(v)

\* allinmodel looking at the first variable only
notin_first_only(vs) == IF vs # << >> /\ NotInModel(Head(vs)) THEN <<Head(vs)>> ELSE << >>

\* allinmodel(vars, model): the variables it complains about
notin(vs) == SelectSeq(vs, NotInModel)

\* lines 53-64: the optimizer find_MAP goes on with
choose_fmin(given, disc_vars, dsp) ==
    LET f1 == IF disc_vars # << >> /\ dsp THEN "fmin_powell" ELSE given
    IN  IF f1 = "None"
        THEN (IF disc_vars # << >> THEN "fmin_powell" ELSE "fmin_bfgs")
        ELSE f1

Select(a) ==
    /\ pc = "idle"
    /\ LET start0 == IF a.start_given THEN a.start ELSE TestPoint
           vars0 == inputvars(IF a.vars_given THEN a.vars ELSE ContVars)
           disc_vars == typefilter_discrete(vars0)
           disp0 == a.verbose > 1
           bad == notin(vars0)
       IN  /\ args' = a
           /\ start' = start0
           /\ varlist' = vars0
           /\ disp' = disp0
           /\ fmin' = choose_fmin(a.fmin, disc_vars, disp0)
           /\ IF bad # << >>
              THEN /\ pc' = "config_error"
                   /\ outcome' = [NoOutcome EXCEPT !.kind = "ValueError_notinmodel",
                                                   !.notin = bad]
              ELSE /\ pc' = "selected"
                   /\ outcome' = outcome
    /\ UNCHANGED <<bij, fminCalls, fminCall, r, mx0, mx, atmax, evals, gevals, dcall, bb>>

StartArgs == {[given |-> FALSE, val |-> NoPoint], [given |-> TRUE, val |-> GivenStart]}

VarArgs == {[given |-> FALSE, val |-> << >>]} \cup {[given |-> TRUE, val |-> l] : l \in VarLists}

MakeArgs(s, v, f, rr, vb) ==
    [start_given |-> s.given, start |-> s.val, vars_given |-> v.given, vars |-> v.val,
     fmin |-> f, return_raw |-> rr, verbose |-> vb]

ArgSpace ==
    {MakeArgs(s, v, f, rr, vb) :
        s \in StartArgs, v \in VarArgs, f \in {"None"} \cup Optimizers,
        rr \in BOOLEAN, vb \in {1, 2}}

FindMAP_Select == \E a \in ArgSpace : Select(a)

(***************************************************************************)
(* find_MAP, lines 68-85: the bijection, the flat objective and gradient,  *)
(* and the call of the optimizer.                                          *)
(***************************************************************************)
Point(p) == p

\* the bijection anchored at model.test_point instead of start
make_bij_on_test_point(vs, st) == DictToArrayBijection(ArrayOrdering(vs, st), TestPoint)

\* line 69
make_bij(vs, st) == DictToArrayBijection(ArrayOrdering(vs, st), st)

\* the gradient passed without looking at the signature
pass_fprime_always(f) == TRUE

\* line 81: whether fprime=grad_logp_o is passed
pass_fprime(f) == HasFprime(f)

FindMAP_Invoke ==
    /\ pc = "selected"
    /\ LET start1 == Point(start)
           b == make_bij(varlist, start1)
       IN  /\ start' = start1
           /\ bij' = b
           /\ fminCall' = [optimizer |-> fmin, f |-> "logp_o", x0 |-> BijMap(b, start1),
                           fprime |-> IF pass_fprime(fmin) THEN "grad_logp_o" ELSE "none",
                           disp |-> disp]
    /\ fminCalls' = fminCalls + 1
    /\ pc' = "optimizing"
    /\ UNCHANGED <<args, varlist, fmin, disp, r, mx0, mx, atmax, outcome, evals, gevals, dcall, bb>>

(***************************************************************************)
(* The optimizer returns; find_MAP, lines 87-92.                           *)
(***************************************************************************)
\* lines 87-90: r[0] of a tuple, r otherwise
result_vector(rr) == IF rr.tuple THEN rr.items[1] ELSE rr.arr

FminReturn(x) ==
    /\ pc = "optimizing"
    /\ LET rr == IF ReturnsTuple(fmin)
                 THEN [tuple |-> TRUE, arr |-> << >>, items |-> <<x, <<Zero>> >>]
                 ELSE [tuple |-> FALSE, arr |-> x, items |-> << >>]
       IN  /\ r' = rr
           /\ mx0' = result_vector(rr)
           /\ mx' = BijRMap(bij, result_vector(rr))
    /\ pc' = "mapped"
    /\ evals' = << >>
    /\ gevals' = << >>
    /\ UNCHANGED <<args, start, varlist, fmin, disp, bij, fminCalls, fminCall, atmax,
                   outcome, dcall, bb>>

FindMAP_FminReturn == \E x \in Vectors(bij.ordering.dimensions, ElemVals) : FminReturn(x)

(***************************************************************************)
(* find_MAP, lines 94-135: the check of the result, the error message, the *)
(* cast and the return.                                                    *)
(***************************************************************************)
\* the indices (from 0) of the non-finite elements of a flat vector
RECURSIVE NonFiniteIdx(_, _)
NonFiniteIdx(values, i) ==
    IF i > Len(values) THEN << >>
    ELSE (IF isfinite(values[i]) THEN << >> ELSE <<i - 1>>) \o NonFiniteIdx(values, i + 1)

\* message(name, values), lines 107-112
message(name, values) ==
    IF Len(values) < 10
    THEN [name |-> name, form |-> "bad", idx |-> << >>, values |-> values]
    ELSE LET idx == NonFiniteIdx(values, 1)
         IN  [name |-> name, form |-> "bad at idx", idx |-> idx,
              values |-> [j \in 1..Len(idx) |-> values[idx[j] + 1]]]

\* lines 102-117 for one variable: the messages of its non-finite quantities
var_messages(var, point, lp, dl) ==
    LET vals == [value |-> point[var].data, logp |-> <<lp[var]>>, dlogp |-> dl[var]]
        one(k) == IF allfinite(vals[k]) THEN << >> ELSE <<message(<<var, k>>, vals[k])>>
    IN  one("value") \o one("logp") \o one("dlogp")

RECURSIVE messages_of(_, _, _, _)
\* lines 99-117: the loop over the selected variables
messages_of(vs, point, lp, dl) ==
    IF vs = << >> THEN << >>
    ELSE var_messages(Head(vs), point, lp, dl) \o messages_of(Tail(vs), point, lp, dl)

\* the test of the flat result alone
diverged_result_only(x0, lp, dl) == ~allfinite(x0)

\* lines 94-96
diverged(x0, lp, dl) ==
    \/ ~allfinite(x0)
    \/ ~isfinite(model_logp(lp))
    \/ ~allfinite(model_dlogp(dl))

\* line 130
cast_point(point) ==
    [v \in ModelVarSet |->
        [shape |-> point[v].shape,
         data |-> [i \in 1..Len(point[v].data) |-> astype(point[v].data[i], VarDtype(v))]]]

Validate(lp, dl) ==
    /\ pc = "mapped"
    /\ atmax' = [logp |-> lp, dlogp |-> dl]
    /\ IF diverged(mx0, lp, dl)
       THEN /\ pc' = "diverged"
            /\ outcome' = [NoOutcome EXCEPT !.kind = "ValueError_optimization",
                                            !.messages = messages_of(varlist, mx, lp, dl),
                                            !.max = mx,
                                            !.logp = model_logp(lp),
                                            !.dlogp = model_dlogp(dl)]
       ELSE /\ pc' = "returned"
            /\ outcome' = [NoOutcome EXCEPT !.kind = "returned",
                                            !.point = cast_point(mx),
                                            !.has_raw = args.return_raw,
                                            !.raw = IF args.return_raw THEN r ELSE NoR]
    /\ UNCHANGED <<args, start, varlist, fmin, disp, bij, fminCalls, fminCall, r, mx0, mx,
                   evals, gevals, dcall, bb>>

FindMAP_Validate ==
    \E lp \in [ModelVarSet -> LogpAtMax], dl \in [ModelVarSet -> DlogpAtMax] : Validate(lp, dl)

Next ==
    \/ FindMAP_Select
    \/ FindMAP_Invoke
    \/ FindMAP_FminReturn
    \/ FindMAP_Validate

Spec == Init /\ [][Next]_vars

(***************************************************************************)
(* The optimizer's run: it evaluates the flat objective logp_o and, when   *)
(* it was given one, the flat gradient grad_logp_o.  The value of the      *)
(* model's log-density (gradient) at the Point of the flat vector is an    *)
(* input.                                                                  *)
(***************************************************************************)
\* values of model.fastlogp at a Point
LogpVals == {Fin(-3, 0), Fin(-1, 200), Fin(2, 0), NegInf, PosInf, NaN}

\* values of an entry of model.fastdlogp(vars) at a Point
GradVals == {Fin(-2, 0), NaN, PosInf, NegInf}

\* the objective without the negation
logp_o_not_negated(l) == nan_to_high(l)

\* lines 74-75: logp_o(point), l = logp(point)
logp_o(l) == nan_to_high(Neg(l))

\* the gradient without the negation
grad_logp_o_not_negated(g) == nan_to_num(g)

\* lines 77-78: grad_logp_o(point), g = dlogp(point)
grad_logp_o(g) == nan_to_num(NegVec(g))

EvalObjective(l) ==
    /\ pc = "optimizing"
    /\ fminCall.f = "logp_o"
    /\ Len(evals) < MaxEvals
    /\ evals' = Append(evals, [logp |-> l, value |-> logp_o(l)])
    /\ UNCHANGED <<pc, args, start, varlist, fmin, disp, bij, fminCalls, fminCall, r, mx0,
                   mx, atmax, outcome, gevals, dcall, bb>>

Fmin_EvalObjective == \E l \in LogpVals : EvalObjective(l)

EvalGradient(g) ==
    /\ pc = "optimizing"
    /\ fminCall.fprime = "grad_logp_o"
    /\ gevals' = <<[dlogp |-> g, value |-> grad_logp_o(g)]>>
    /\ UNCHANGED <<pc, args, start, varlist, fmin, disp, bij, fminCalls, fminCall, r, mx0,
                   mx, atmax, outcome, evals, dcall, bb>>

Fmin_EvalGradient == \E g \in Vectors(bij.ordering.dimensions, GradVals) : EvalGradient(g)

\* the calls whose optimizer run is followed
RunArgSpace ==
    {MakeArgs(s, v, f, FALSE, 1) :
        s \in {[given |-> FALSE, val |-> NoPoint]},
        v \in {[given |-> FALSE, val |-> << >>], [given |-> TRUE, val |-> <<"d", "x">>]},
        f \in {"None", "scipyminimize"}}

FindMAP_SelectRun == \E a \in RunArgSpace : Select(a)

NextRun ==
    \/ FindMAP_SelectRun
    \/ FindMAP_Invoke
    \/ Fmin_EvalObjective
    \/ Fmin_EvalGradient

SpecRun == Init /\ [][NextRun]_vars

(***************************************************************************)
(* The discrete distributions (pymc3/distributions/discrete.py).           *)
(* Counts and values are integers, probabilities are integers counted in   *)
(* tenths, rates are floats.  The value of a log-density is "-inf" or the  *)
(* name of the unconstrained expression the distribution computes from its *)
(* parameters and the value; an evaluation returns or raises.              *)
(***************************************************************************)
Returned(x) == [outcome |-> "returned", result |-> x]

Raised(x) == [outcome |-> "raised", result |-> x]

FLeq(a, b) == a = b \/ FLess(a, b)

RECURSIVE alltrue(_)
\* alltrue(vals) of dist_math: the product of the conditions, as numbers
alltrue(conds) ==
    IF conds = << >> THEN 1
    ELSE (IF Head(conds) THEN 1 ELSE 0) * alltrue(Tail(conds))

\* T.switch(cond, a, b)
switch(cond, a, b) == IF cond THEN a ELSE b

\* bound(logp, *conditions) of dist_math
bound(logp, conds) == switch(alltrue(conds) # 0, logp, "-inf")

\* lines 51-58
Binomial_logp(n, p, value) ==
    Returned(bound("binomial_expr", <<0 <= value, value <= n, 0 <= p, p <= 10>>))

\* lines 115-122
BetaBinomial_logp(alpha, beta, n, value) ==
    Returned(bound("betabinomial_expr",
                   <<value >= 0, value <= n, FLess(Zero, alpha), FLess(Zero, beta)>>))

\* lines 155-160
Bernoulli_logp(p, value) ==
    Returned(bound(switch(value # 0, "log_p", "log_1_minus_p"),
                   <<value >= 0, value <= 1, p >= 0, p <= 10>>))

\* lines 200-204
Poisson_logp(mu, value) ==
    Returned(bound("poisson_expr", <<FLeq(Zero, mu), value >= 0>>))

\* lines 246-257
NegativeBinomial_logp(mu, alpha, value) ==
    LET negbinom == bound("negbinom_expr",
                          <<value >= 0, FLess(Zero, mu), FLess(Zero, alpha)>>)
    IN  Returned(switch(FLess(Fin(1, 10), alpha), Poisson_logp(mu, value).result, negbinom))

\* lines 291-294
Geometric_logp(p, value) ==
    Returned(bound("geometric_expr", <<0 <= p, p <= 10, value >= 1>>))

\* lines 336-340
DiscreteUniform_logp(lower, upper, value) ==
    Returned(bound("discreteuniform_expr", <<lower <= value, value <= upper>>))

RECURSIVE SumInts(_)
SumInts(q) == IF q = << >> THEN 0 ELSE Head(q) + SumInts(Tail(q))

\* p[value] on a vector: Python's indexing, an index from -k to k-1 selects an
\* element (a negative one counts from the end) and any other raises IndexError
Index(p, value) ==
    LET k == Len(p)
    IN  IF 0 <= value /\ value < k THEN Returned(value + 1)
        ELSE IF -k <= value /\ value < 0 THEN Returned(k + value + 1)
        ELSE Raised("IndexError")

\* lines 378-389, p a vector
Categorical_logp(p, value) ==
    LET k == Len(p)
        \* |sum(p) - 1| <= 1e-5, p in tenths
        sumto1 == Abs(SumInts(p) - 10) * 10000 <= 1
        a == Index(p, value)
    IN  IF a.outcome = "raised" THEN a
        ELSE Returned(bound("log_p_at_value", <<value >= 0, value <= k - 1, sumto1>>))

\* lines 415-417
ConstantDist_logp(c, value) == Returned(bound("zero", <<value = c>>))

\* lines 434-437
ZeroInflatedPoisson_logp(theta, z, value) ==
    Returned(switch(z, Poisson_logp(theta, value).result, ConstantDist_logp(0, value).result))

\* lines 429-432
ZeroInflatedPoisson_random(theta) == Returned("None")

Counts == 0..2

Values == -4..3

Probs == {-1, 0, 5, 10, 11}

Rates == {Fin(-5, 0), Zero, Fin(5, 0)}

Alphas == {Fin(-1, 0), Zero, Fin(2, 0), Fin(1, 10), Fin(1, 11)}

ProbVectors == {<<2, 3, 5>>, <<2, 3, 6>>, <<5, 5>>}

DCall(dist, method, params, value, out) ==
    [dist |-> dist, method |-> method, params |-> params, value |-> value,
     outcome |-> out.outcome, result |-> out.result]

Binomial_logp_call ==
    \E n \in Counts, p \in Probs, value \in Values :
        /\ dcall' = DCall("Binomial", "logp", [n |-> n, p |-> p], value, Binomial_logp(n, p, value))
        /\ UNCHANGED <<mapvars, bb>>

BetaBinomial_logp_call ==
    \E alpha \in Rates, beta \in Rates, n \in Counts, value \in Values :
        /\ dcall' = DCall("BetaBinomial", "logp", [alpha |-> alpha, beta |-> beta, n |-> n], value,
                        BetaBinomial_logp(alpha, beta, n, value))
        /\ UNCHANGED <<mapvars, bb>>

Bernoulli_logp_call ==
    \E p \in Probs, value \in Values :
        /\ dcall' = DCall("Bernoulli", "logp", [p |-> p], value, Bernoulli_logp(p, value))
        /\ UNCHANGED <<mapvars, bb>>

Poisson_logp_call ==
    \E mu \in Rates, value \in Values :
        /\ dcall' = DCall("Poisson", "logp", [mu |-> mu], value, Poisson_logp(mu, value))
        /\ UNCHANGED <<mapvars, bb>>

NegativeBinomial_logp_call ==
    \E mu \in Rates, alpha \in Alphas, value \in Values :
        /\ dcall' = DCall("NegativeBinomial", "logp", [mu |-> mu, alpha |-> alpha], value,
                        NegativeBinomial_logp(mu, alpha, value))
        /\ UNCHANGED <<mapvars, bb>>

Geometric_logp_call ==
    \E p \in Probs, value \in Values :
        /\ dcall' = DCall("Geometric", "logp", [p |-> p], value, Geometric_logp(p, value))
        /\ UNCHANGED <<mapvars, bb>>

DiscreteUniform_logp_call ==
    \E lower \in Counts, upper \in Counts, value \in Values :
        /\ dcall' = DCall("DiscreteUniform", "logp", [lower |-> lower, upper |-> upper], value,
                        DiscreteUniform_logp(lower, upper, value))
        /\ UNCHANGED <<mapvars, bb>>

Categorical_logp_call ==
    \E p \in ProbVectors, value \in Values :
        /\ dcall' = DCall("Categorical", "logp", [p |-> p], value, Categorical_logp(p, value))
        /\ UNCHANGED <<mapvars, bb>>

ConstantDist_logp_call ==
    \E c \in Counts, value \in Values :
        /\ dcall' = DCall("ConstantDist", "logp", [c |-> c], value, ConstantDist_logp(c, value))
        /\ UNCHANGED <<mapvars, bb>>

ZeroInflatedPoisson_logp_call ==
    \E theta \in Rates, z \in BOOLEAN, value \in Values :
        /\ dcall' = DCall("ZeroInflatedPoisson", "logp", [theta |-> theta, z |-> z], value,
                        ZeroInflatedPoisson_logp(theta, z, value))
        /\ UNCHANGED <<mapvars, bb>>

\* random(point, size): size 0 stands for size=None
ZeroInflatedPoisson_random_call ==
    \E theta \in Rates, z \in BOOLEAN, size \in 0..2 :
        /\ dcall' = DCall("ZeroInflatedPoisson", "random", [theta |-> theta, z |-> z], size,
                        ZeroInflatedPoisson_random(theta))
        /\ UNCHANGED <<mapvars, bb>>

NextDist ==
    \/ Binomial_logp_call
    \/ BetaBinomial_logp_call
    \/ Bernoulli_logp_call
    \/ Poisson_logp_call
    \/ NegativeBinomial_logp_call
    \/ Geometric_logp_call
    \/ DiscreteUniform_logp_call
    \/ Categorical_logp_call
    \/ ConstantDist_logp_call
    \/ ZeroInflatedPoisson_logp_call
    \/ ZeroInflatedPoisson_random_call

SpecDist == Init /\ [][NextDist]_vars

(***************************************************************************)
(* Properties.                                                             *)
(***************************************************************************)
Range(q) == {q[i] : i \in 1..Len(q)}

Offending == {v \in Range(varlist) : v \notin ModelVarSet}

Invoked == pc \in {"optimizing", "mapped", "returned", "diverged"}

\* C1: a find_MAP call whose resolved vars hold a variable that is not in
\* model.vars raises an error that lists exactly the offending variables, and
\* the optimizer has not been invoked when it is raised.
C1_ConfigErrorBeforeFmin ==
    pc # "idle" =>
        /\ (Offending # {}) <=> (pc = "config_error")
        /\ pc = "config_error" =>
              /\ fminCalls = 0
              /\ fminCall = NoCall
              /\ outcome.kind = "ValueError_notinmodel"
              /\ Range(outcome.notin) = Offending
              /\ outcome.point = NoPoint

\* a call that raised for a list holding a model variable and a foreign one
C1_Witness ==
    /\ pc = "config_error"
    /\ Len(varlist) = 2
    /\ Offending # {}
    /\ Range(varlist) \cap ModelVarSet # {}

\* C2: find_MAP returns a result only if the flat result vector, the model's
\* log-density at the mapped-back Point and the model's gradient there are all
\* finite; if any of them holds a non-finite value the call raises, after the
\* optimizer has returned, and returns nothing.
C2_ReturnsOnlyFinite ==
    LET finite == /\ \A i \in 1..Len(mx0) : isfinite(mx0[i])
                  /\ isfinite(model_logp(atmax.logp))
                  /\ \A i \in 1..GradDim : isfinite(model_dlogp(atmax.dlogp)[i])
    IN  /\ pc = "returned" =>
              /\ finite
              /\ outcome.kind = "returned"
              /\ DOMAIN outcome.point = ModelVarSet
        /\ pc = "diverged" =>
              /\ ~finite
              /\ outcome.kind = "ValueError_optimization"
              /\ outcome.point = NoPoint
              /\ ~outcome.has_raw
              /\ fminCalls = 1
              /\ r # NoR

\* a call that raised although the result vector and the log-density are finite
C2_Witness ==
    /\ pc = "diverged"
    /\ allfinite(mx0)
    /\ isfinite(model_logp(atmax.logp))
    /\ ~allfinite(model_dlogp(atmax.dlogp))

NonFiniteAt(v) ==
    \/ ~allfinite(mx[v].data)
    \/ ~isfinite(atmax.logp[v])
    \/ ~allfinite(atmax.dlogp[v])

\* the message names v in one of its specific issues, or shows a non-finite
\* value of v in the Point it prints
NamedInMessage(v) ==
    \/ \E i \in 1..Len(outcome.messages) : outcome.messages[i].name[1] = v
    \/ ~allfinite(outcome.max[v].data)

\* C3: whenever find_MAP raises the divergence error, the message names a
\* model variable whose value, log-density or gradient is non-finite, also
\* when that variable was not selected for optimization.
C3_MessageNamesNonFiniteVariable ==
    pc = "diverged" => \E v \in ModelVarSet : NonFiniteAt(v) /\ NamedInMessage(v)

\* C6: the optimizer invoked is the caller's fmin if one was given; without
\* one it is fmin_powell when a selected variable is discrete and fmin_bfgs
\* otherwise.
C6_OptimizerChoice ==
    Invoked =>
        fminCall.optimizer =
            IF args.fmin # "None" THEN args.fmin
            ELSE IF \E v \in Range(varlist) : IsDiscrete(v) THEN "fmin_powell"
            ELSE "fmin_bfgs"

\* the Points with the variables and shapes of the start Point
PointsLike(point) ==
    {[v \in DOMAIN point |-> [shape |-> point[v].shape, data |-> f[v]]] :
        f \in {g \in [DOMAIN point -> UNION {Vectors(n, {Zero, One, Half}) : n \in 1..2}] :
                  \A v \in DOMAIN point : Len(g[v]) = Prod(point[v].shape)}}

RECURSIVE Flatten(_, _)
Flatten(vs, point) ==
    IF vs = << >> THEN << >> ELSE point[Head(vs)].data \o Flatten(Tail(vs), point)

\* C10: a call that passes validation invokes the optimizer exactly once, with
\* the objective and the flattened start Point; the gradient is passed as
\* fprime exactly if the optimizer's signature has an argument fprime; the
\* result vector is the first element of a returned tuple and the whole
\* return value otherwise.
C10_InvokedOnce ==
    /\ fminCalls <= 1
    /\ ~Invoked => fminCalls = 0
    /\ Invoked =>
          /\ fminCalls = 1
          /\ fminCall.f = "logp_o"
          /\ fminCall.x0 = Flatten(varlist, start)
          /\ fminCall.disp = (args.verbose > 1)
          /\ (fminCall.fprime = "grad_logp_o") <=> (fminCall.optimizer \in {"fmin_bfgs", "scipyminimize"})
          /\ (fminCall.fprime = "none") <=> (fminCall.optimizer = "fmin_powell")
    /\ pc \in {"mapped", "returned", "diverged"} =>
          /\ r.tuple <=> (fminCall.optimizer = "scipyminimize")
          /\ r.tuple => mx0 = r.items[1]
          /\ ~r.tuple => mx0 = r.arr
          /\ Len(mx0) = Len(fminCall.x0)

\* a call that returned after an optimizer that takes fprime returned a tuple
C10_Witness ==
    /\ pc = "returned"
    /\ r.tuple
    /\ fminCall.fprime = "grad_logp_o"
    /\ fminCalls = 1

\* the sentinel 1.0e100
High == Fin(1, HighExp)

\* C4 as claimed: logp_o gives the optimizer a finite value at every point,
\* the negated log-density where that is finite and 1e100 where it is not, and
\* no invalid point gets a lower (better) objective than a valid one.
C4_ObjectiveFiniteAndOrdered ==
    \A i \in 1..Len(evals) :
        /\ isfinite(evals[i].value)
        /\ isfinite(evals[i].logp) => evals[i].value = Neg(evals[i].logp)
        /\ ~isfinite(evals[i].logp) => evals[i].value = High
        /\ \A j \in 1..Len(evals) :
              (~isfinite(evals[i].logp) /\ isfinite(evals[j].logp))
                  => ~FLess(evals[i].value, evals[j].value)

\* C4, amended: logp_o gives the optimizer a finite value at every point, the
\* negated log-density where that is finite and 1e100 where it is not, and no
\* invalid point gets a lower objective than a valid one whose log-density is
\* at least -1e100.
C4_ObjectiveFinite ==
    \A i \in 1..Len(evals) :
        /\ isfinite(evals[i].value)
        /\ isfinite(evals[i].logp) => evals[i].value = Neg(evals[i].logp)
        /\ ~isfinite(evals[i].logp) => evals[i].value = High
        /\ \A j \in 1..Len(evals) :
              (/\ ~isfinite(evals[i].logp)
               /\ isfinite(evals[j].logp)
               /\ FLeq(Neg(High), evals[j].logp))
                  => ~FLess(evals[i].value, evals[j].value)

\* an optimizer run that saw an invalid point and then a valid one
C4_Witness ==
    /\ Len(evals) = 2
    /\ evals[1].logp = NegInf
    /\ evals[2].logp = Fin(-3, 0)
    /\ evals[1].value = High

\* C5 as claimed: grad_logp_o replaces every non-finite entry of the negated
\* gradient by zero and leaves every finite entry as it is.
C5_GradientNonFiniteToZero ==
    \A n \in 1..Len(gevals) :
        \A i \in 1..Len(gevals[n].dlogp) :
            LET ng == Neg(gevals[n].dlogp[i])
            IN  /\ isfinite(ng) => gevals[n].value[i] = ng
                /\ ~isfinite(ng) => gevals[n].value[i] = Zero

\* C5, amended: grad_logp_o replaces a NaN entry of the negated gradient by
\* zero, a +inf entry by the largest finite float and a -inf entry by the most
\* negative finite float, and leaves every finite entry as it is.
C5_GradientNanToNum ==
    \A n \in 1..Len(gevals) :
        /\ Len(gevals[n].value) = Len(gevals[n].dlogp)
        /\ \A i \in 1..Len(gevals[n].dlogp) :
              LET ng == Neg(gevals[n].dlogp[i])
                  out == gevals[n].value[i]
              IN  /\ isfinite(out)
                  /\ isfinite(ng) => out = ng
                  /\ ng.k = "nan" => out = Zero
                  /\ ng = PosInf => out = FloatMax(1)
                  /\ ng = NegInf => out = FloatMax(-1)

\* a gradient with a NaN, an infinite and a finite entry was evaluated
C5_Witness ==
    /\ Len(gevals) = 1
    /\ gevals[1].dlogp = <<NaN, PosInf, Fin(-2, 0)>>
    /\ gevals[1].value = <<Zero, FloatMax(-1), Fin(2, 0)>>

\* C8: ZeroInflatedPoisson.random signals "not implemented" and never
\* returns a value to the caller.
C8_RandomNotImplemented ==
    (dcall.dist = "ZeroInflatedPoisson" /\ dcall.method = "random") =>
        /\ dcall.outcome = "raised"
        /\ dcall.result = "NotImplementedError"

\* the constraints of the distribution of the last call on its parameters and
\* on the value
ConstraintsHold ==
    LET q == dcall.params
        value == dcall.value
    IN  CASE dcall.dist = "Binomial" -> 0 <= value /\ value <= q.n /\ 0 <= q.p /\ q.p <= 10
          [] dcall.dist = "BetaBinomial" ->
                0 <= value /\ value <= q.n /\ FLess(Zero, q.alpha) /\ FLess(Zero, q.beta)
          [] dcall.dist = "Bernoulli" -> value \in {0, 1} /\ 0 <= q.p /\ q.p <= 10
          [] dcall.dist = "Poisson" -> value >= 0 /\ FLeq(Zero, q.mu)
          [] dcall.dist = "NegativeBinomial" ->
                IF FLess(Fin(1, 10), q.alpha)
                THEN value >= 0 /\ FLeq(Zero, q.mu)
                ELSE value >= 0 /\ FLess(Zero, q.mu) /\ FLess(Zero, q.alpha)
          [] dcall.dist = "Geometric" -> value >= 1 /\ 0 <= q.p /\ q.p <= 10
          [] dcall.dist = "DiscreteUniform" -> q.lower <= value /\ value <= q.upper
          [] dcall.dist = "Categorical" ->
                0 <= value /\ value <= Len(q.p) - 1 /\ SumInts(q.p) = 10
          [] dcall.dist = "ConstantDist" -> value = q.c
          [] dcall.dist = "ZeroInflatedPoisson" ->
                IF q.z THEN value >= 0 /\ FLeq(Zero, q.theta) ELSE value = 0

\* the unconstrained log-density expression of the last call
Unconstrained ==
    CASE dcall.dist = "Binomial" -> "binomial_expr"
      [] dcall.dist = "BetaBinomial" -> "betabinomial_expr"
      [] dcall.dist = "Bernoulli" -> IF dcall.value = 1 THEN "log_p" ELSE "log_1_minus_p"
      [] dcall.dist = "Poisson" -> "poisson_expr"
      [] dcall.dist = "NegativeBinomial" ->
            IF FLess(Fin(1, 10), dcall.params.alpha) THEN "poisson_expr" ELSE "negbinom_expr"
      [] dcall.dist = "Geometric" -> "geometric_expr"
      [] dcall.dist = "DiscreteUniform" -> "discreteuniform_expr"
      [] dcall.dist = "Categorical" -> "log_p_at_value"
      [] dcall.dist = "ConstantDist" -> "zero"
      [] dcall.dist = "ZeroInflatedPoisson" ->
            IF dcall.params.z THEN "poisson_expr" ELSE "zero"

\* C9: for every distribution, logp never raises; it is minus infinity when
\* the value is outside the support or a parameter outside its domain, and
\* the unconstrained log-density expression when all constraints hold.
C9_LogpNeverRaises ==
    dcall.method = "logp" =>
        /\ dcall.outcome = "returned"
        /\ ConstraintsHold => dcall.result = Unconstrained
        /\ ~ConstraintsHold => dcall.result = "-inf"

(***************************************************************************)
(* BetaBinomial._random (discrete.py, lines 96-106).                       *)
(* stats.beta.rvs gives, for every draw, a probability or NaN; bb.first    *)
(* keeps the first draws, bb.retried whether the loop body has run and      *)
(* bb.turn the number of its turns modulo 2, so that a turn in which every *)
(* new draw is NaN again is a step of its own.                             *)
(***************************************************************************)
\* largest number of draws asked for
MaxSize == 3

\* what one draw of stats.beta.rvs can be
BetaDraws == {Half, One, NaN}

\* np.isnan on one element
isnan(f) == f.k = "nan"

\* np.any(np.isnan(p))
any_isnan(p) == \E i \in 1..Len(p) : isnan(p[i])

\* np.sum(i), i = np.isnan(p), over the first m elements
RECURSIVE count_isnan(_, _)
count_isnan(p, m) ==
    IF m = 0 THEN 0 ELSE (IF isnan(p[m]) THEN 1 ELSE 0) + count_isnan(p, m - 1)

\* the whole of p overwritten by the new draws
redraw_unmasked(p, draws) == [i \in 1..Len(p) |-> draws[((i - 1) % Len(draws)) + 1]]

\* lines 101-102: p[i] = draws, i the mask of the NaN entries; the k-th new
\* draw goes to the k-th NaN entry
redraw(p, draws) ==
    [i \in 1..Len(p) |-> IF isnan(p[i]) THEN draws[count_isnan(p, i)] ELSE p[i]]

\* what stats.binom.rvs can draw for n trials with probability q
BinomDraws(n, q) ==
    IF q = One THEN {n}
    ELSE IF q = Zero THEN {0}
    ELSE 0..n

\* lines 97-98: size = size or 1 and the first draws
BetaBinomial_random_begin ==
    \E n \in 1..2, size \in 0..MaxSize :
        LET size1 == IF size = 0 THEN 1 ELSE size
        IN  \E draws \in Vectors(size1, BetaDraws) :
                /\ bb.pc = "idle"
                /\ bb' = [NoBB EXCEPT !.pc = "loop", !.n = n, !.size = size1,
                                      !.first = draws, !.p = draws]
                /\ UNCHANGED <<mapvars, dcall>>

\* lines 100-102: one turn of the loop
Retry(draws) ==
    /\ bb.pc = "loop"
    /\ any_isnan(bb.p)
    /\ bb' = [bb EXCEPT !.p = redraw(bb.p, draws), !.retried = TRUE,
                         !.turn = (bb.turn + 1) % 2]
    /\ UNCHANGED <<mapvars, dcall>>

BetaBinomial_random_retry ==
    \E draws \in Vectors(count_isnan(bb.p, Len(bb.p)), BetaDraws) : Retry(draws)

\* lines 104-106: the loop is left, the binomial draw
BetaBinomial_random_draw ==
    /\ bb.pc = "loop"
    /\ ~any_isnan(bb.p)
    /\ \E s \in [1..bb.size -> 0..bb.n] :
          /\ \A i \in 1..bb.size : s[i] \in BinomDraws(bb.n, bb.p[i])
          /\ bb' = [bb EXCEPT !.pc = "done", !.samples = [shape |-> <<bb.size>>, data |-> s]]
    /\ UNCHANGED <<mapvars, dcall>>

NextBeta ==
    \/ BetaBinomial_random_begin
    \/ BetaBinomial_random_retry
    \/ BetaBinomial_random_draw

\* a turn of the loop in which the Beta sampler gives a valid value for entry i
RetryValid(i) ==
    \E draws \in Vectors(count_isnan(bb.p, Len(bb.p)), BetaDraws) :
        /\ Retry(draws)
        /\ i \in 1..Len(bb.p)
        /\ isnan(bb.p[i])
        /\ ~isnan(redraw(bb.p, draws)[i])

\* the loop runs on while it can, and the Beta sampler does not fail for ever
\* on an entry it is asked for again and again
SpecBeta ==
    /\ Init
    /\ [][NextBeta]_vars
    /\ WF_vars(BetaBinomial_random_retry)
    /\ WF_vars(BetaBinomial_random_draw)
    /\ \A i \in 1..MaxSize : WF_vars(RetryValid(i))

\* C11: the retry loop of BetaBinomial._random redraws only the Beta draws
\* that failed and leaves every valid draw as it is; the binomial draw is
\* taken only when every Beta draw is finite, from those very draws; and if
\* the Beta sampler eventually gives a valid value for every entry it is asked
\* for again, the loop ends.
C11_RetryOnlyFailedDraws ==
    /\ [][(bb.pc = "loop" /\ bb'.pc = "loop") =>
              /\ any_isnan(bb.p)
              /\ Len(bb'.p) = Len(bb.p)
              /\ \A i \in 1..Len(bb.p) : ~isnan(bb.p[i]) => bb'.p[i] = bb.p[i]]_bb
    /\ [][(bb.pc = "loop" /\ bb'.pc = "done") =>
              /\ bb'.p = bb.p
              /\ \A i \in 1..Len(bb.p) : isfinite(bb.p[i])]_bb
    /\ [](bb.pc = "done" =>
              /\ \A i \in 1..Len(bb.p) : isfinite(bb.p[i])
              /\ Len(bb.samples.data) = bb.size
              /\ \A i \in 1..bb.size : bb.samples.data[i] \in 0..bb.n)
    /\ (bb.pc = "loop") ~> (bb.pc = "done")

\* a call that ended after a retry, one of whose first draws was valid and
\* another was not
C11_Witness ==
    /\ bb.pc = "done"
    /\ bb.retried
    /\ \E i, j \in 1..Len(bb.first) : isnan(bb.first[i]) /\ bb.first[j] = Half /\ bb.p[j] = Half

====
